---- MODULE Spec2Model ----
(***************************************************************************)
(* State-machine model of the ICPC scoreboard engine of src/main.cpp:      *)
(* team registration, contest start, submissions, flush, freeze, scroll    *)
(* and the two queries.                                                    *)
(*                                                                         *)
(* Team names are the integers 1..MaxTeams; the integer order stands for   *)
(* the lexicographic order of std::string (operator< of line 107 and the   *)
(* key order of the std::map of line 79).  Problem letters are the         *)
(* integers 1..26: letter 'A' + j of the source is j + 1 here.             *)
(* Commands are drawn within the input contract of the program: SUBMIT     *)
(* names a registered team and a problem of the started contest, and       *)
(* submission times never decrease along the input.  log is the history of *)
(* the SUBMIT lines read so far, in the order main() has read them: each   *)
(* entry points to the submission the line has recorded.                   *)
(***************************************************************************)
EXTENDS Integers, Sequences, FiniteSets

VARIABLES teams, started, frozen, durationTime, problemCount, ranking, pc, out, loc, log

vars == <<teams, started, frozen, durationTime, problemCount, ranking, pc, out, loc, log>>

\* The core state of ICPCSystem: everything but the position of main() and
\* scroll() and the text written to stdout.
core == <<teams, started, frozen, durationTime, problemCount, ranking>>

MaxTeams == 3
MaxProblems == 2
MaxSubs == 2
MaxTime == 2
MaxDuration == 1

PenaltyPerWrong == 20

TeamNames == 1..MaxTeams
Statuses == {"Accepted", "Wrong_Answer"}
ALL == "ALL"
\* The problem filter "ALL" of a submission query (letters are 1..26).
AnyProblem == 0
\* char('Z' + 1): no frozen problem found.
NoLetter == 27

----------------------------------------------------------------------------
\* Helpers on sequences.

Range(s) == {s[i] : i \in DOMAIN s}

RECURSIVE SumSeq(_)
SumSeq(s) == IF s = <<>> THEN 0 ELSE Head(s) + SumSeq(Tail(s))

\* Position of the first occurrence of x in s, 0 when absent (the loops of
\* lines 280-285 and 339-344, counted from 1).
IndexOf(s, x) ==
    IF \E i \in DOMAIN s : s[i] = x
    THEN CHOOSE i \in DOMAIN s : s[i] = x /\ \A j \in 1..(i - 1) : s[j] /= x
    ELSE 0

\* vector::erase(begin + (i-1)) and vector::insert(begin + (i-1), x).
\* EraseAt erasing the last element whatever the position asked for.
EraseLast(s, i) == [k \in 1..(Len(s) - 1) |-> s[k]]

EraseAt(s, i) == [k \in 1..(Len(s) - 1) |-> IF k < i THEN s[k] ELSE s[k + 1]]
InsertAt(s, i, x) ==
    [k \in 1..(Len(s) + 1) |-> IF k < i THEN s[k] ELSE IF k = i THEN x ELSE s[k - 1]]

\* sort(begin, end): a sequence of integers in increasing order, built by
\* insertion (std::sort with operator<, lines 173).
RECURSIVE InsertAsc(_, _)
InsertAsc(s, x) ==
    IF s = <<>> THEN <<x>>
    ELSE IF x < Head(s) THEN <<x>> \o s
    ELSE <<Head(s)>> \o InsertAsc(Tail(s), x)

RECURSIVE SortAsc(_)
SortAsc(s) == IF s = <<>> THEN <<>> ELSE InsertAsc(SortAsc(Tail(s)), Head(s))

\* sort(rbegin, rend): increasing from the back, so decreasing from the front.
Reverse(s) == [i \in 1..Len(s) |-> s[Len(s) + 1 - i]]
SortDesc(s) == Reverse(SortAsc(s))

\* The elements of a finite set of integers in increasing order: the
\* iteration order of a std::map.
RECURSIVE SetToSeq(_)
SetToSeq(S) ==
    IF S = {} THEN <<>>
    ELSE LET m == CHOOSE x \in S : \A y \in S : x <= y
         IN <<m>> \o SetToSeq(S \ {m})

----------------------------------------------------------------------------
\* Data model.

NewProblemStatus ==
    [solved |-> FALSE, solveTime |-> 0, wrongAttempts |-> 0,
     frozenSubmissions |-> 0, submissions |-> <<>>, frozenSubs |-> <<>>]

NewTeam ==
    [problems |-> <<>>, cachedSolved |-> -1, cachedPenalty |-> -1,
     cachedTimes |-> <<>>, cacheValid |-> FALSE]

invalidateCache(team) == [team EXCEPT !.cacheValid = FALSE]

\* The solved problems of a team in letter order.
SolvedLetters(team) ==
    SetToSeq({p \in DOMAIN team.problems : team.problems[p].solved})

updateCache(team) ==
    IF team.cacheValid THEN team
    ELSE LET ls == SolvedLetters(team)
             ps == team.problems
         IN [team EXCEPT
               !.cachedSolved = Len(ls),
               !.cachedPenalty =
                   SumSeq([i \in DOMAIN ls |->
                       ps[ls[i]].solveTime + PenaltyPerWrong * ps[ls[i]].wrongAttempts]),
               !.cachedTimes =
                   SortDesc([i \in DOMAIN ls |-> ps[ls[i]].solveTime]),
               !.cacheValid = TRUE]

getSolvedCount(team) == updateCache(team).cachedSolved
getPenaltyTime(team) == updateCache(team).cachedPenalty
getSolveTimes(team) == updateCache(team).cachedTimes

Min(a, b) == IF a < b THEN a ELSE b

\* compareTeams with the penalty test of line 97 turned round.
compareTeamsHighPenaltyFirst(ts, t1Name, t2Name) ==
    LET team1 == updateCache(ts[t1Name])
        team2 == updateCache(ts[t2Name])
        solved1 == team1.cachedSolved
        solved2 == team2.cachedSolved
        penalty1 == team1.cachedPenalty
        penalty2 == team2.cachedPenalty
        times1 == team1.cachedTimes
        times2 == team2.cachedTimes
        minSize == Min(Len(times1), Len(times2))
        diff == {i \in 1..minSize : times1[i] /= times2[i]}
    IN IF solved1 /= solved2 THEN solved1 > solved2
       ELSE IF penalty1 /= penalty2 THEN penalty1 > penalty2
       ELSE IF diff /= {}
            THEN LET i == CHOOSE k \in diff : \A j \in diff : k <= j
                 IN times1[i] < times2[i]
       ELSE t1Name < t2Name

\* compareTeams without the tie-break on the names of line 107.
compareTeamsNoNameTieBreak(ts, t1Name, t2Name) ==
    LET team1 == updateCache(ts[t1Name])
        team2 == updateCache(ts[t2Name])
        solved1 == team1.cachedSolved
        solved2 == team2.cachedSolved
        penalty1 == team1.cachedPenalty
        penalty2 == team2.cachedPenalty
        times1 == team1.cachedTimes
        times2 == team2.cachedTimes
        minSize == Min(Len(times1), Len(times2))
        diff == {i \in 1..minSize : times1[i] /= times2[i]}
    IN IF solved1 /= solved2 THEN solved1 > solved2
       ELSE IF penalty1 /= penalty2 THEN penalty1 < penalty2
       ELSE IF diff /= {}
            THEN LET i == CHOOSE k \in diff : \A j \in diff : k <= j
                 IN times1[i] < times2[i]
       ELSE FALSE

\* compareTeams over a team map ts: TRUE when t1Name ranks before t2Name.
\* The first accessor called on a team runs updateCache (lines 62, 67, 72);
\* the later ones return the fields it has set.
compareTeams(ts, t1Name, t2Name) ==
    LET team1 == updateCache(ts[t1Name])
        team2 == updateCache(ts[t2Name])
        solved1 == team1.cachedSolved
        solved2 == team2.cachedSolved
        penalty1 == team1.cachedPenalty
        penalty2 == team2.cachedPenalty
        times1 == team1.cachedTimes
        times2 == team2.cachedTimes
        minSize == Min(Len(times1), Len(times2))
        diff == {i \in 1..minSize : times1[i] /= times2[i]}
    IN IF solved1 /= solved2 THEN solved1 > solved2
       ELSE IF penalty1 /= penalty2 THEN penalty1 < penalty2
       ELSE IF diff /= {}
            THEN LET i == CHOOSE k \in diff : \A j \in diff : k <= j
                 IN times1[i] < times2[i]
       ELSE t1Name < t2Name

\* The memoisation a call of an accessor leaves behind on the teams in S.
Touch(ts, S) == [n \in DOMAIN ts |-> IF n \in S THEN updateCache(ts[n]) ELSE ts[n]]

\* flushScoreboard: the names in map order, sorted with compareTeams.
RECURSIVE InsertTeam(_, _, _)
InsertTeam(ts, s, x) ==
    IF s = <<>> THEN <<x>>
    ELSE IF compareTeams(ts, x, Head(s)) THEN <<x>> \o s
    ELSE <<Head(s)>> \o InsertTeam(ts, Tail(s), x)

RECURSIVE SortTeams(_, _)
SortTeams(ts, s) ==
    IF s = <<>> THEN <<>> ELSE InsertTeam(ts, SortTeams(ts, Tail(s)), Head(s))

FlushedRanking(ts) == SortTeams(ts, SetToSeq(DOMAIN ts))

\* std::sort calls the comparator on every element as soon as there are two.
FlushedTeams(ts) ==
    IF Cardinality(DOMAIN ts) >= 2 THEN Touch(ts, DOMAIN ts) ELSE ts

\* printScoreboard reads getSolvedCount of every team of the ranking.
PrintedTeams(ts, rk) == Touch(ts, Range(rk))

----------------------------------------------------------------------------
\* Bookkeeping for the input contract and the bounds.

TeamSubCount(team) ==
    SumSeq([p \in DOMAIN team.problems |-> Len(team.problems[p].submissions)])

NumSubs(ts) ==
    LET ns == SetToSeq(DOMAIN ts)
    IN SumSeq([i \in DOMAIN ns |-> TeamSubCount(ts[ns[i]])])

AllSubmissions(ts) ==
    UNION {UNION {Range(ts[n].problems[p].submissions) : p \in DOMAIN ts[n].problems} :
             n \in DOMAIN ts}

\* The time of the latest submission so far (times never decrease).
LastTime(ts) ==
    IF AllSubmissions(ts) = {} THEN 1
    ELSE CHOOSE m \in {s.time : s \in AllSubmissions(ts)} :
             \A s \in AllSubmissions(ts) : s.time <= m

----------------------------------------------------------------------------
\* The command being processed and what it has written to stdout: the
\* command word, its arguments, the message line it printed and the result
\* lines that follow it (the scoreboard tables that scroll() prints are left
\* out).  pc is "idle" when main() waits for a line (line 396), "scroll"
\* inside the loop of scroll(), "done" when the handler has returned and
\* "ended" when END has left the loop of main() (line 447).

Output(cmd, args, msg, res) == [cmd |-> cmd, args |-> args, msg |-> msg, res |-> res]
NoOutput == Output("", <<>>, "", <<>>)

\* The locals of the last iteration of the loop of scroll() (lines 248-250,
\* 279, 288, 308); newRank is oldRank when the iteration ends at line 303.
Locals(found, targetTeam, targetProblem, oldRank, changed, newRank) ==
    [found |-> found, targetTeam |-> targetTeam, targetProblem |-> targetProblem,
     oldRank |-> oldRank, changed |-> changed, newRank |-> newRank]
NoLocals == Locals(FALSE, 0, NoLetter, 0, FALSE, 0)

ErrorMessages ==
    {"[Error]Add failed: competition has started.",
     "[Error]Add failed: duplicated team name.",
     "[Error]Start failed: competition has started.",
     "[Error]Freeze failed: scoreboard has been frozen.",
     "[Error]Scroll failed: scoreboard has not been frozen.",
     "[Error]Query ranking failed: cannot find the team.",
     "[Error]Query submission failed: cannot find the team."}

Rejected(o) == o.msg \in ErrorMessages

----------------------------------------------------------------------------
\* Construction and the commands before the contest.

Init ==
    /\ teams = <<>>
    /\ started = FALSE
    /\ frozen = FALSE
    /\ durationTime = 0
    /\ problemCount = 0
    /\ ranking = <<>>
    /\ pc = "idle"
    /\ out = NoOutput
    /\ loc = NoLocals
    /\ log = <<>>

\* addTeam without the duplicate test of lines 167-170.
addTeamNoDuplicateTest(name) ==
    /\ pc = "idle"
    /\ IF started
       THEN /\ out' = Output("ADDTEAM", <<name>>, "[Error]Add failed: competition has started.", <<>>)
            /\ pc' = "done"
            /\ UNCHANGED <<core, loc, log>>
       ELSE /\ teams' = [n \in DOMAIN teams \cup {name} |->
                            IF n = name THEN NewTeam ELSE teams[n]]
            /\ ranking' = SortAsc(Append(ranking, name))
            /\ out' = Output("ADDTEAM", <<name>>, "[Info]Add successfully.", <<>>)
            /\ pc' = "done"
            /\ UNCHANGED <<started, frozen, durationTime, problemCount, loc, log>>

addTeam(name) ==
    /\ pc = "idle"
    /\ IF started
       THEN /\ out' = Output("ADDTEAM", <<name>>, "[Error]Add failed: competition has started.", <<>>)
            /\ pc' = "done"
            /\ UNCHANGED <<core, loc, log>>
       ELSE IF name \in DOMAIN teams
       THEN /\ out' = Output("ADDTEAM", <<name>>, "[Error]Add failed: duplicated team name.", <<>>)
            /\ pc' = "done"
            /\ UNCHANGED <<core, loc, log>>
       ELSE /\ teams' = [n \in DOMAIN teams \cup {name} |->
                            IF n = name THEN NewTeam ELSE teams[n]]
            /\ ranking' = SortAsc(Append(ranking, name))
            /\ out' = Output("ADDTEAM", <<name>>, "[Info]Add successfully.", <<>>)
            /\ pc' = "done"
            /\ UNCHANGED <<started, frozen, durationTime, problemCount, loc, log>>

startCompetition(duration, problems) ==
    /\ pc = "idle"
    /\ IF started
       THEN /\ out' = Output("START", <<duration, problems>>, "[Error]Start failed: competition has started.", <<>>)
            /\ pc' = "done"
            /\ UNCHANGED <<core, loc, log>>
       ELSE /\ started' = TRUE
            /\ durationTime' = duration
            /\ problemCount' = problems
            /\ teams' = [n \in DOMAIN teams |->
                            [teams[n] EXCEPT !.problems =
                                [i \in 1..problems |-> NewProblemStatus]]]
            /\ out' = Output("START", <<duration, problems>>, "[Info]Competition starts.", <<>>)
            /\ pc' = "done"
            /\ UNCHANGED <<frozen, ranking, loc, log>>

----------------------------------------------------------------------------
\* Submissions.

Submission(problem, status, time) ==
    [problem |-> problem, status |-> status, time |-> time]

\* SubmitStatus without the test of line 207: a submission that is not
\* deferred is applied to a solved problem too.
SubmitStatusCountingAfterSolve(ps0, sub, isFrozen) ==
    LET ps == [ps0 EXCEPT !.submissions = Append(@, sub)]
    IN IF isFrozen /\ ~ps.solved
       THEN <<[ps EXCEPT !.frozenSubmissions = @ + 1,
                         !.frozenSubs = Append(@, sub)], FALSE>>
       ELSE IF sub.status = "Accepted"
            THEN <<[ps EXCEPT !.solved = TRUE, !.solveTime = sub.time], TRUE>>
            ELSE <<[ps EXCEPT !.wrongAttempts = @ + 1], TRUE>>

\* SubmitStatus without the test of frozen of line 205: a submission is
\* applied at once whatever the state of the contest.
SubmitStatusIgnoringFreeze(ps0, sub, isFrozen) ==
    LET ps == [ps0 EXCEPT !.submissions = Append(@, sub)]
    IN IF ~ps.solved
       THEN IF sub.status = "Accepted"
            THEN <<[ps EXCEPT !.solved = TRUE, !.solveTime = sub.time], TRUE>>
            ELSE <<[ps EXCEPT !.wrongAttempts = @ + 1], TRUE>>
       ELSE <<ps, FALSE>>

\* SubmitStatus without the test of !ps.solved in line 205: while the contest
\* is frozen every submission goes to the frozen storage.
SubmitStatusFreezingSolved(ps0, sub, isFrozen) ==
    LET ps == [ps0 EXCEPT !.submissions = Append(@, sub)]
    IN IF isFrozen
       THEN <<[ps EXCEPT !.frozenSubmissions = @ + 1,
                         !.frozenSubs = Append(@, sub)], FALSE>>
       ELSE IF ~ps.solved
       THEN IF sub.status = "Accepted"
            THEN <<[ps EXCEPT !.solved = TRUE, !.solveTime = sub.time], TRUE>>
            ELSE <<[ps EXCEPT !.wrongAttempts = @ + 1], TRUE>>
       ELSE <<ps, FALSE>>

\* The Problem Status after submit() on it (lines 202-217); the second
\* component tells whether the team's cache is invalidated.
SubmitStatus(ps0, sub, isFrozen) ==
    LET ps == [ps0 EXCEPT !.submissions = Append(@, sub)]
    IN IF isFrozen /\ ~ps.solved
       THEN <<[ps EXCEPT !.frozenSubmissions = @ + 1,
                         !.frozenSubs = Append(@, sub)], FALSE>>
       ELSE IF ~ps.solved
       THEN IF sub.status = "Accepted"
            THEN <<[ps EXCEPT !.solved = TRUE, !.solveTime = sub.time], TRUE>>
            ELSE <<[ps EXCEPT !.wrongAttempts = @ + 1], TRUE>>
       ELSE <<ps, FALSE>>

\* SubmitTeam without the invalidateCache of lines 212 and 215.
SubmitTeamKeepingCache(team, prob, sub, isFrozen) ==
    [team EXCEPT !.problems[prob] = SubmitStatus(team.problems[prob], sub, isFrozen)[1]]

SubmitTeam(team, prob, sub, isFrozen) ==
    LET r == SubmitStatus(team.problems[prob], sub, isFrozen)
        t == [team EXCEPT !.problems[prob] = r[1]]
    IN IF r[2] THEN invalidateCache(t) ELSE t

\* submit followed by flushScoreboard: the scoreboard follows every submission.
submitFlushing(problem, teamName, status, time) ==
    /\ pc = "idle"
    /\ started
    /\ teamName \in DOMAIN teams
    /\ problem \in 1..problemCount
    /\ time >= LastTime(teams)
    /\ NumSubs(teams) < MaxSubs
    /\ teams' = [teams EXCEPT ![teamName] =
                    SubmitTeam(@, problem, Submission(problem, status, time), frozen)]
    /\ ranking' = FlushedRanking(teams')
    /\ out' = Output("SUBMIT", <<problem, teamName, status, time>>, "", <<>>)
    /\ pc' = "done"
    /\ log' = Append(log, [team |-> teamName, problem |-> problem,
                            idx |-> Len(teams[teamName].problems[problem].submissions) + 1])
    /\ UNCHANGED <<started, frozen, durationTime, problemCount, loc>>

submit(problem, teamName, status, time) ==
    /\ pc = "idle"
    /\ started
    /\ teamName \in DOMAIN teams
    /\ problem \in 1..problemCount
    /\ time >= LastTime(teams)
    /\ NumSubs(teams) < MaxSubs
    /\ teams' = [teams EXCEPT ![teamName] =
                    SubmitTeam(@, problem, Submission(problem, status, time), frozen)]
    /\ out' = Output("SUBMIT", <<problem, teamName, status, time>>, "", <<>>)
    /\ pc' = "done"
    /\ log' = Append(log, [team |-> teamName, problem |-> problem,
                            idx |-> Len(teams[teamName].problems[problem].submissions) + 1])
    /\ UNCHANGED <<started, frozen, durationTime, problemCount, ranking, loc>>

----------------------------------------------------------------------------
\* Flush and freeze.

flush ==
    /\ pc = "idle"
    /\ ranking' = FlushedRanking(teams)
    /\ teams' = FlushedTeams(teams)
    /\ out' = Output("FLUSH", <<>>, "[Info]Flush scoreboard.", <<>>)
    /\ pc' = "done"
    /\ UNCHANGED <<started, frozen, durationTime, problemCount, loc, log>>

\* freeze without the guard of lines 226-229.
freezeUnguarded ==
    /\ pc = "idle"
    /\ frozen' = TRUE
    /\ out' = Output("FREEZE", <<>>, "[Info]Freeze scoreboard.", <<>>)
    /\ pc' = "done"
    /\ UNCHANGED <<teams, started, durationTime, problemCount, ranking, loc, log>>

freeze ==
    /\ pc = "idle"
    /\ IF frozen
       THEN /\ out' = Output("FREEZE", <<>>, "[Error]Freeze failed: scoreboard has been frozen.", <<>>)
            /\ pc' = "done"
            /\ UNCHANGED <<core, loc, log>>
       ELSE /\ frozen' = TRUE
            /\ out' = Output("FREEZE", <<>>, "[Info]Freeze scoreboard.", <<>>)
            /\ pc' = "done"
            /\ UNCHANGED <<teams, started, durationTime, problemCount, ranking, loc, log>>

----------------------------------------------------------------------------
\* Scroll.  scroll() is one command; its loop is followed step by step:
\* pc = "scroll" while the loop of lines 247-321 runs, and no other command
\* is read until it has ended.

Max(a, b) == IF a > b THEN a ELSE b

\* Lines 255-263: the smallest letter with frozen submissions, or 'Z' + 1.
SmallestFrozen(team, pcnt) ==
    LET fz == {j \in 1..pcnt : team.problems[j].frozenSubmissions > 0}
    IN IF fz = {} THEN NoLetter ELSE CHOOSE j \in fz : \A k \in fz : j <= k

\* Lines 253-271: scan the ranking from its last position upwards.
RECURSIVE ScanFrom(_, _, _, _)
ScanFrom(ts, rk, pcnt, i) ==
    IF i < 1 THEN [found |-> FALSE, team |-> 0, problem |-> NoLetter]
    ELSE LET sf == SmallestFrozen(ts[rk[i]], pcnt)
         IN IF sf < NoLetter
            THEN [found |-> TRUE, team |-> rk[i], problem |-> sf]
            ELSE ScanFrom(ts, rk, pcnt, i - 1)

\* FindTarget scanning the ranking from its first position downwards.
RECURSIVE ScanDownFrom(_, _, _, _)
ScanDownFrom(ts, rk, pcnt, i) ==
    IF i > Len(rk) THEN [found |-> FALSE, team |-> 0, problem |-> NoLetter]
    ELSE LET sf == SmallestFrozen(ts[rk[i]], pcnt)
         IN IF sf < NoLetter
            THEN [found |-> TRUE, team |-> rk[i], problem |-> sf]
            ELSE ScanDownFrom(ts, rk, pcnt, i + 1)

FindTargetFromTop(ts, rk, pcnt) == ScanDownFrom(ts, rk, pcnt, 1)

FindTarget(ts, rk, pcnt) == ScanFrom(ts, rk, pcnt, Len(rk))

\* ReplayFrom without the test of line 290: failures after the first
\* Accepted submission are counted too.
RECURSIVE ReplayCountingAll(_, _, _)
ReplayCountingAll(ps, subs, changed) ==
    IF subs = <<>> THEN <<ps, changed>>
    ELSE LET sub == Head(subs)
         IN IF sub.status = "Accepted"
            THEN IF ~ps.solved
                 THEN ReplayCountingAll([ps EXCEPT !.solved = TRUE, !.solveTime = sub.time],
                                        Tail(subs), TRUE)
                 ELSE ReplayCountingAll(ps, Tail(subs), changed)
            ELSE ReplayCountingAll([ps EXCEPT !.wrongAttempts = @ + 1], Tail(subs), changed)

\* ReplayFrom with the test of line 291 turned round.
RECURSIVE ReplayInverted(_, _, _)
ReplayInverted(ps, subs, changed) ==
    IF subs = <<>> THEN <<ps, changed>>
    ELSE LET sub == Head(subs)
         IN IF ~ps.solved
            THEN IF sub.status /= "Accepted"
                 THEN ReplayInverted([ps EXCEPT !.solved = TRUE, !.solveTime = sub.time],
                                     Tail(subs), TRUE)
                 ELSE ReplayInverted([ps EXCEPT !.wrongAttempts = @ + 1], Tail(subs), changed)
            ELSE ReplayInverted(ps, Tail(subs), changed)

\* ReplayFrom without line 295: the failures of the window are not counted.
RECURSIVE ReplayForgivingWrong(_, _, _)
ReplayForgivingWrong(ps, subs, changed) ==
    IF subs = <<>> THEN <<ps, changed>>
    ELSE LET sub == Head(subs)
         IN IF ~ps.solved /\ sub.status = "Accepted"
            THEN ReplayForgivingWrong([ps EXCEPT !.solved = TRUE, !.solveTime = sub.time],
                                      Tail(subs), TRUE)
            ELSE ReplayForgivingWrong(ps, Tail(subs), changed)

\* Lines 288-299: replay of the frozen submissions of one problem.
RECURSIVE ReplayFrom(_, _, _)
ReplayFrom(ps, subs, changed) ==
    IF subs = <<>> THEN <<ps, changed>>
    ELSE LET sub == Head(subs)
         IN IF ~ps.solved
            THEN IF sub.status = "Accepted"
                 THEN ReplayFrom([ps EXCEPT !.solved = TRUE, !.solveTime = sub.time],
                                 Tail(subs), TRUE)
                 ELSE ReplayFrom([ps EXCEPT !.wrongAttempts = @ + 1], Tail(subs), changed)
            ELSE ReplayFrom(ps, Tail(subs), changed)

\* Resolve without the reset of lines 300-301: the frozen storage is kept.
ResolveKeepingFrozen(ps) == ReplayFrom(ps, ps.frozenSubs, FALSE)

\* Lines 288-301: the resolved Problem Status and the flag `changed`.
Resolve(ps) ==
    LET r == ReplayFrom(ps, ps.frozenSubs, FALSE)
    IN <<[r[1] EXCEPT !.frozenSubmissions = 0, !.frozenSubs = <<>>], r[2]>>

\* NewRank moving the target past one team at most (if for while in line 309).
NewRankOneStep(ts, rk, target, r) ==
    IF r > 1 /\ compareTeams(ts, target, rk[r - 1]) THEN r - 1 ELSE r

\* Lines 308-311: move up while the target compares better than the team above.
RECURSIVE NewRank(_, _, _, _)
NewRank(ts, rk, target, r) ==
    IF r > 1 /\ compareTeams(ts, target, rk[r - 1])
    THEN NewRank(ts, rk, target, r - 1)
    ELSE r

\* RankChangeLine naming the team at the new position itself (ranking[newRank]
\* for ranking[newRank + 1] in line 318).
RankChangeLineSamePosition(ts, rk, team, newRank) ==
    [team |-> team, below |-> rk[newRank],
     solved |-> getSolvedCount(ts[team]), penalty |-> getPenaltyTime(ts[team])]

\* Lines 318-319: the line printed after a move, rk being the ranking after
\* the insertion and newRank the new position counted from 1.
RankChangeLine(ts, rk, team, newRank) ==
    [team |-> team, below |-> rk[newRank + 1],
     solved |-> getSolvedCount(ts[team]), penalty |-> getPenaltyTime(ts[team])]

\* One iteration of the loop (lines 275-320) on target tgt: the teams, the
\* ranking, the rank-change lines it prints (none or one) and its locals.
ScrollStep(ts, rk, tgt) ==
    LET oldRank == IndexOf(rk, tgt.team)
        r == Resolve(ts[tgt.team].problems[tgt.problem])
        ts1 == [ts EXCEPT ![tgt.team].problems[tgt.problem] = r[1]]
    IN IF ~r[2]
       THEN [teams |-> ts1, ranking |-> rk, lines |-> <<>>,
             loc |-> Locals(TRUE, tgt.team, tgt.problem, oldRank, FALSE, oldRank)]
       ELSE LET ts2 == [ts1 EXCEPT ![tgt.team] = invalidateCache(@)]
                newRank == NewRank(ts2, rk, tgt.team, oldRank)
                compared == IF oldRank > 1
                            THEN {tgt.team} \cup
                                 {rk[k] : k \in Max(newRank - 1, 1)..(oldRank - 1)}
                            ELSE {}
                ts3 == Touch(ts2, compared)
            IN IF newRank < oldRank
               THEN LET rk1 == InsertAt(EraseAt(rk, oldRank), newRank, tgt.team)
                    IN [teams |-> ts3, ranking |-> rk1,
                        lines |-> <<RankChangeLine(ts3, rk1, tgt.team, newRank)>>,
                        loc |-> Locals(TRUE, tgt.team, tgt.problem, oldRank, TRUE, newRank)]
               ELSE [teams |-> ts3, ranking |-> rk, lines |-> <<>>,
                     loc |-> Locals(TRUE, tgt.team, tgt.problem, oldRank, TRUE, newRank)]

\* scrollBegin without the flushScoreboard of line 243.
scrollBeginNoFlush ==
    /\ pc = "idle"
    /\ IF ~frozen
       THEN /\ out' = Output("SCROLL", <<>>,
                             "[Error]Scroll failed: scoreboard has not been frozen.", <<>>)
            /\ pc' = "done"
            /\ UNCHANGED <<core, loc, log>>
       ELSE /\ teams' = PrintedTeams(teams, ranking)
            /\ pc' = "scroll"
            /\ out' = Output("SCROLL", <<>>, "[Info]Scroll scoreboard.", <<>>)
            /\ UNCHANGED <<started, frozen, durationTime, problemCount, ranking, loc, log>>

\* Lines 234-244: the guard, the flush and the first printScoreboard.
scrollBegin ==
    /\ pc = "idle"
    /\ IF ~frozen
       THEN /\ out' = Output("SCROLL", <<>>,
                             "[Error]Scroll failed: scoreboard has not been frozen.", <<>>)
            /\ pc' = "done"
            /\ UNCHANGED <<core, loc, log>>
       ELSE /\ ranking' = FlushedRanking(teams)
            /\ teams' = PrintedTeams(FlushedTeams(teams), ranking')
            /\ pc' = "scroll"
            /\ out' = Output("SCROLL", <<>>, "[Info]Scroll scoreboard.", <<>>)
            /\ UNCHANGED <<started, frozen, durationTime, problemCount, loc, log>>

\* Lines 247-321: one iteration that found a frozen problem.
scrollResolve ==
    /\ pc = "scroll"
    /\ FindTarget(teams, ranking, problemCount).found
    /\ LET step == ScrollStep(teams, ranking, FindTarget(teams, ranking, problemCount))
       IN /\ teams' = step.teams
          /\ ranking' = step.ranking
          /\ out' = [out EXCEPT !.res = @ \o step.lines]
          /\ loc' = step.loc
    /\ UNCHANGED <<started, frozen, durationTime, problemCount, pc, log>>

\* Lines 273 and 323-324: nothing frozen is left.
scrollEnd ==
    /\ pc = "scroll"
    /\ ~FindTarget(teams, ranking, problemCount).found
    /\ frozen' = FALSE
    /\ teams' = PrintedTeams(teams, ranking)
    /\ pc' = "done"
    /\ UNCHANGED <<started, durationTime, problemCount, ranking, out, loc, log>>

----------------------------------------------------------------------------
\* Queries.

queryRanking(teamName) ==
    /\ pc = "idle"
    /\ IF teamName \notin DOMAIN teams
       THEN out' = Output("QUERY_RANKING", <<teamName>>,
                          "[Error]Query ranking failed: cannot find the team.", <<>>)
       ELSE out' = Output("QUERY_RANKING", <<teamName>>,
                          "[Info]Complete query ranking.",
                          <<[team |-> teamName, rank |-> IndexOf(ranking, teamName)]>>)
    /\ pc' = "done"
    /\ UNCHANGED <<core, loc, log>>

\* The submissions of a team as (problem, index) pairs in the order the
\* loops of lines 360-361 visit them: by letter, then by position.
RECURSIVE PointersFrom(_, _)
PointersFrom(team, p) ==
    IF p > Len(team.problems) THEN <<>>
    ELSE [i \in 1..Len(team.problems[p].submissions) |-> [problem |-> p, idx |-> i]]
         \o PointersFrom(team, p + 1)

Deref(team, ptr) == team.problems[ptr.problem].submissions[ptr.idx]

\* ScanMatches with the comparison of line 366 turned round.
RECURSIVE ScanMatchesOldest(_, _, _, _, _)
ScanMatchesOldest(team, ptrs, problem, status, lastMatch) ==
    IF ptrs = <<>> THEN lastMatch
    ELSE LET sub == Deref(team, Head(ptrs))
             problemMatch == (problem = AnyProblem \/ sub.problem = problem)
             statusMatch == (status = ALL \/ sub.status = status)
             take == /\ problemMatch
                     /\ statusMatch
                     /\ (lastMatch = <<>> \/ sub.time < Deref(team, lastMatch[1]).time)
         IN ScanMatchesOldest(team, Tail(ptrs), problem, status,
                              IF take THEN <<Head(ptrs)>> ELSE lastMatch)

\* Lines 362-369 over the remaining pointers; lastMatch is <<>> for nullptr.
RECURSIVE ScanMatches(_, _, _, _, _)
ScanMatches(team, ptrs, problem, status, lastMatch) ==
    IF ptrs = <<>> THEN lastMatch
    ELSE LET sub == Deref(team, Head(ptrs))
             problemMatch == (problem = AnyProblem \/ sub.problem = problem)
             statusMatch == (status = ALL \/ sub.status = status)
             take == /\ problemMatch
                     /\ statusMatch
                     /\ (lastMatch = <<>> \/ sub.time > Deref(team, lastMatch[1]).time)
         IN ScanMatches(team, Tail(ptrs), problem, status,
                        IF take THEN <<Head(ptrs)>> ELSE lastMatch)

\* Lines 357-371: the submission lastMatch points to, <<>> for none.
LastMatch(team, problem, status) ==
    ScanMatches(team, PointersFrom(team, 1), problem, status, <<>>)

querySubmission(teamName, problem, status) ==
    /\ pc = "idle"
    /\ IF teamName \notin DOMAIN teams
       THEN out' = Output("QUERY_SUBMISSION", <<teamName, problem, status>>,
                          "[Error]Query submission failed: cannot find the team.", <<>>)
       ELSE LET m == LastMatch(teams[teamName], problem, status)
            IN out' = Output("QUERY_SUBMISSION", <<teamName, problem, status>>,
                             "[Info]Complete query submission.",
                             IF m = <<>> THEN <<>>
                             ELSE <<[team |-> teamName,
                                     sub |-> Deref(teams[teamName], m[1])]>>)
    /\ pc' = "done"
    /\ UNCHANGED <<core, loc, log>>

----------------------------------------------------------------------------

\* main(), line 396: the handler has returned and the next line is read.
nextLine ==
    /\ pc = "done"
    /\ pc' = "idle"
    /\ out' = NoOutput
    /\ loc' = NoLocals
    /\ UNCHANGED <<core, log>>

\* END (lines 381-383, 445-448): the message is printed and main() leaves
\* its loop; no further line is read.
end ==
    /\ pc = "idle"
    /\ out' = Output("END", <<>>, "[Info]Competition ends.", <<>>)
    /\ pc' = "ended"
    /\ UNCHANGED <<core, loc, log>>

Next ==
    \/ nextLine
    \/ end
    \/ \E name \in TeamNames : addTeam(name)
    \/ \E duration \in 1..MaxDuration, problems \in 1..MaxProblems :
           startCompetition(duration, problems)
    \/ \E problem \in 1..MaxProblems, teamName \in TeamNames,
          status \in Statuses, time \in 1..MaxTime :
           submit(problem, teamName, status, time)
    \/ flush
    \/ freeze
    \/ scrollBegin
    \/ scrollResolve
    \/ scrollEnd
    \/ \E teamName \in TeamNames : queryRanking(teamName)
    \/ \E teamName \in TeamNames, problem \in {AnyProblem} \cup (1..MaxProblems),
          status \in {ALL} \cup Statuses :
           querySubmission(teamName, problem, status)

Spec == Init /\ [][Next]_vars

\* The guard of scrollResolve (line 273 does not leave the loop); a
\* scrollResolve step always changes the state, so this is
\* ENABLED <<scrollResolve>>_vars.
ResolveEnabled == pc = "scroll" /\ FindTarget(teams, ranking, problemCount).found

\* scroll() is one call: once entered, its loop takes its next step (lines
\* 247-321) and, with nothing left to resolve, returns (lines 273, 323-324).
\* The first fairness condition is WF_vars(scrollResolve) with the guard
\* written out for ENABLED.
LiveSpec ==
    /\ Init
    /\ [][Next]_vars
    /\ ([]<>~ResolveEnabled \/ []<><<scrollResolve>>_vars)
    /\ WF_vars(scrollEnd)

----------------------------------------------------------------------------
\* Vocabulary of the properties, stated on the Problem Statuses themselves.

KnownTeams == DOMAIN teams

\* Every recorded submission of a team, as (problem, index) pairs.
Recorded(team) ==
    UNION {{[problem |-> p, idx |-> i] : i \in DOMAIN team.problems[p].submissions} :
             p \in DOMAIN team.problems}

\* A submission deferred by a freeze and not yet resolved: the frozen
\* submissions of a problem are the last frozenSubmissions ones recorded.
StillFrozen(team, ptr) ==
    LET ps == team.problems[ptr.problem]
    IN ptr.idx > Len(ps.submissions) - ps.frozenSubmissions

Matches(sub, problem, status) ==
    /\ problem = AnyProblem \/ sub.problem = problem
    /\ status = ALL \/ sub.status = status

\* res is the answer "the submission of S with the greatest time", or none.
GreatestOf(name, team, S, res) ==
    IF S = {} THEN res = <<>>
    ELSE /\ Len(res) = 1
         /\ res[1].team = name
         /\ \E q \in S : Deref(team, q) = res[1].sub
         /\ \A q \in S : Deref(team, q).time <= res[1].sub.time

QueryDone == pc = "done" /\ out.cmd = "QUERY_SUBMISSION" /\ ~Rejected(out)

FrozenIsTail ==
    \A t \in KnownTeams : \A p \in DOMAIN teams[t].problems :
        LET ps == teams[t].problems[p]
        IN /\ ps.frozenSubmissions = Len(ps.frozenSubs)
           /\ ps.frozenSubs =
                 SubSeq(ps.submissions,
                        Len(ps.submissions) - ps.frozenSubmissions + 1,
                        Len(ps.submissions))

----------------------------------------------------------------------------
\* Steps of the loop of scroll().

HasFrozen(t) == \E p \in 1..problemCount : teams[t].problems[p].frozenSubmissions > 0

\* The step resolves problem p of team t: it was frozen and no longer is.
ResolvedBy(t, p) ==
    /\ teams[t].problems[p].frozenSubmissions > 0
    /\ teams'[t].problems[p].frozenSubmissions = 0

ResolveStep == pc = "scroll" /\ pc' = "scroll"

\* C2: every resolution step of a scroll resolves exactly one problem, that
\* of the lowest-ranked team of the current scoreboard that has a frozen
\* problem, and among that team's frozen problems the smallest letter.
C2_LowestRankSmallestLetter ==
    [][ResolveStep =>
          \E t \in KnownTeams : \E p \in 1..problemCount :
              /\ ResolvedBy(t, p)
              /\ \A u \in KnownTeams : \A q \in 1..problemCount :
                     ResolvedBy(u, q) => (u = t /\ q = p)
              /\ \A u \in KnownTeams :
                     HasFrozen(u) => IndexOf(ranking, u) <= IndexOf(ranking, t)
              /\ \A q \in 1..problemCount :
                     teams[t].problems[q].frozenSubmissions > 0 => p <= q
              /\ loc'.targetTeam = t /\ loc'.targetProblem = p]_vars

\* A scroll has resolved the problem of one team while a team ranked above
\* it still holds a frozen problem.
C2_Witness ==
    /\ pc = "scroll"
    /\ loc.found
    /\ \E u \in KnownTeams :
           /\ HasFrozen(u)
           /\ u /= loc.targetTeam
           /\ IndexOf(ranking, u) < loc.oldRank

\* C3: the resolution of a frozen problem replays its frozen submissions in
\* order.  With a first Accepted one at position k the problem is solved at
\* that submission's time and wrongAttempts grows by k - 1; with none the
\* problem stays unsolved and wrongAttempts grows by the number of frozen
\* submissions.  Either way frozenSubmissions is 0 and the frozen list empty.
C3_Replay ==
    [][ResolveStep =>
          \A t \in KnownTeams : \A p \in 1..problemCount :
              ResolvedBy(t, p) =>
                  LET ps == teams[t].problems[p]
                      ps2 == teams'[t].problems[p]
                      fs == ps.frozenSubs
                      acc == {i \in DOMAIN fs : fs[i].status = "Accepted"}
                  IN /\ ps2.frozenSubmissions = 0
                     /\ ps2.frozenSubs = <<>>
                     /\ ps2.submissions = ps.submissions
                     /\ IF acc /= {}
                        THEN LET k == CHOOSE i \in acc : \A j \in acc : i <= j
                             IN /\ ps2.solved
                                /\ ps2.solveTime = fs[k].time
                                /\ ps2.wrongAttempts = ps.wrongAttempts + (k - 1)
                        ELSE /\ ~ps2.solved
                             /\ ps2.solveTime = ps.solveTime
                             /\ ps2.wrongAttempts = ps.wrongAttempts + Len(fs)]_vars

\* The scroll is about to resolve a problem whose frozen submissions hold an
\* Accepted one and another one, before or after it.
C3_Witness ==
    /\ pc = "scroll"
    /\ LET tgt == FindTarget(teams, ranking, problemCount)
       IN /\ tgt.found
          /\ LET fs == teams[tgt.team].problems[tgt.problem].frozenSubs
             IN /\ Len(fs) >= 2
                /\ \E i \in DOMAIN fs : fs[i].status = "Accepted"

----------------------------------------------------------------------------
\* The ranking metrics recomputed from the Problem Statuses.

SolvedSet(team) == {p \in DOMAIN team.problems : team.problems[p].solved}

RECURSIVE PenaltyOver(_, _)
PenaltyOver(team, S) ==
    IF S = {} THEN 0
    ELSE LET p == CHOOSE q \in S : TRUE
         IN team.problems[p].solveTime + 20 * team.problems[p].wrongAttempts
            + PenaltyOver(team, S \ {p})

TrueSolved(team) == Cardinality(SolvedSet(team))
TruePenalty(team) == PenaltyOver(team, SolvedSet(team))

\* C4: in every reachable state the cached accessors of every team return
\* the number of its solved problems and the sum over its solved problems of
\* solveTime + 20 * wrongAttempts.
C4_CacheNeverStale ==
    \A t \in KnownTeams :
        /\ getSolvedCount(teams[t]) = TrueSolved(teams[t])
        /\ getPenaltyTime(teams[t]) = TruePenalty(teams[t])

\* A resolution that only added wrong attempts has just run on a team whose
\* cache is valid and which has a solved problem.
C4_Witness ==
    /\ pc = "scroll"
    /\ loc.found
    /\ ~loc.changed
    /\ LET team == teams[loc.targetTeam]
       IN /\ team.cacheValid
          /\ team.cachedSolved >= 1
          /\ team.problems[loc.targetProblem].wrongAttempts >= 1

----------------------------------------------------------------------------
\* The order of the scoreboard.

\* The solve times of the solved problems, largest first.
TrueTimes(team) ==
    LET ls == SetToSeq(SolvedSet(team))
    IN SortDesc([i \in DOMAIN ls |-> team.problems[ls[i]].solveTime])

LexSmaller(a, b) ==
    \E i \in 1..Min(Len(a), Len(b)) :
        /\ a[i] < b[i]
        /\ \A j \in 1..(i - 1) : a[j] = b[j]

\* Team u is to rank above team v.
RanksAbove(u, v) ==
    LET tu == teams[u]
        tv == teams[v]
    IN \/ TrueSolved(tu) > TrueSolved(tv)
       \/ /\ TrueSolved(tu) = TrueSolved(tv)
          /\ TruePenalty(tu) < TruePenalty(tv)
       \/ /\ TrueSolved(tu) = TrueSolved(tv)
          /\ TruePenalty(tu) = TruePenalty(tv)
          /\ LexSmaller(TrueTimes(tu), TrueTimes(tv))
       \/ /\ TrueSolved(tu) = TrueSolved(tv)
          /\ TruePenalty(tu) = TruePenalty(tv)
          /\ TrueTimes(tu) = TrueTimes(tv)
          /\ u < v

IsPermutationOfTeams(rk) ==
    /\ Len(rk) = Cardinality(KnownTeams)
    /\ Range(rk) = KnownTeams

FlushDone == pc = "done" /\ out.cmd = "FLUSH"

\* C5: immediately after a flush the scoreboard lists every registered team
\* once, and every team ranks above each team listed after it: more solved
\* problems, or as many and a lower penalty, or both equal and a smaller list
\* of solve times (largest first), or all equal and the smaller name.
C5_FlushOrder ==
    FlushDone =>
        /\ IsPermutationOfTeams(ranking)
        /\ \A i \in DOMAIN ranking : \A j \in DOMAIN ranking :
               i < j => RanksAbove(ranking[i], ranking[j])

\* A flush has ranked a team above a team of smaller name that solved as
\* many problems with a higher penalty.
C5_Witness ==
    /\ FlushDone
    /\ \E i \in DOMAIN ranking : \E j \in DOMAIN ranking :
           /\ i < j
           /\ ranking[i] > ranking[j]
           /\ TrueSolved(teams[ranking[i]]) = 1
           /\ TrueSolved(teams[ranking[j]]) = 1
           /\ TruePenalty(teams[ranking[i]]) < TruePenalty(teams[ranking[j]])

\* C6: whenever a command can call it (main() waits for a line, or the loop
\* of scroll() runs) compareTeams is a strict total order on the registered
\* teams: irreflexive, antisymmetric, transitive, and for two distinct
\* teams exactly one of a < b and b < a holds.
C6_StrictTotalOrder ==
    LET Less(a, b) == compareTeams(teams, a, b)
    IN pc \in {"idle", "scroll"} =>
       /\ \A a \in KnownTeams : ~Less(a, a)
       /\ \A a \in KnownTeams : \A b \in KnownTeams : ~(Less(a, b) /\ Less(b, a))
       /\ \A a \in KnownTeams : \A b \in KnownTeams :
              Less(a, b) => \A c \in KnownTeams : Less(b, c) => Less(a, c)
       /\ \A a \in KnownTeams : \A b \in KnownTeams :
              a /= b => (Less(a, b) /\ ~Less(b, a)) \/ (Less(b, a) /\ ~Less(a, b))

\* Three teams are registered, two of them tied on solved problems, penalty
\* and solve times, the third one with other metrics.
C6_Witness ==
    /\ pc = "idle"
    /\ Cardinality(KnownTeams) = 3
    /\ \E a \in KnownTeams : \E b \in KnownTeams : \E c \in KnownTeams :
           /\ a /= b
           /\ TrueSolved(teams[a]) = 1
           /\ TrueSolved(teams[b]) = 1
           /\ TruePenalty(teams[a]) = TruePenalty(teams[b])
           /\ TrueSolved(teams[c]) = 0
           /\ compareTeams(teams, a, b)
           /\ compareTeams(teams, b, c)

----------------------------------------------------------------------------
\* Scroll as a whole.

NoFrozenProblem ==
    \A t \in KnownTeams : \A p \in DOMAIN teams[t].problems :
        teams[t].problems[p].frozenSubmissions = 0

SameStatuses ==
    \A t \in KnownTeams : teams'[t].problems = teams[t].problems

\* C7: a scroll that starts with no frozen problem (so that its loop finds
\* no target) changes no Problem Status and prints no rank-change line in
\* any of its steps, each of its steps leaves the scoreboard the sequence a
\* flush produces, and its second step returns with the contest not frozen.
C7_ScrollWithNothingFrozen ==
    [][(/\ frozen
        /\ NoFrozenProblem
        /\ (pc = "idle" /\ pc' = "scroll") \/ (pc = "scroll" /\ ~loc.found))
       => /\ SameStatuses
          /\ out'.res = <<>>
          /\ ranking' = FlushedRanking(teams')
          /\ pc = "scroll" => (pc' = "done" /\ ~frozen')]_vars

\* A scroll has ended without a single iteration of its loop, and its flush
\* had put a team above a team of smaller name.
C7_Witness ==
    /\ pc = "done"
    /\ out.cmd = "SCROLL"
    /\ ~Rejected(out)
    /\ ~loc.found
    /\ out.res = <<>>
    /\ Len(ranking) >= 2
    /\ ranking[1] > ranking[2]

\* C8: a resolution step on a problem whose frozen submissions hold no
\* Accepted one leaves the scoreboard as it is, leaves solvedCount and
\* penalty of every team as they are and prints no rank-change line.
C8_WrongOnlyResolution ==
    [][ResolveStep =>
          \A t \in KnownTeams : \A p \in 1..problemCount :
              (/\ ResolvedBy(t, p)
               /\ \A i \in DOMAIN teams[t].problems[p].frozenSubs :
                      teams[t].problems[p].frozenSubs[i].status /= "Accepted")
              => /\ ranking' = ranking
                 /\ out'.res = out.res
                 /\ \A u \in KnownTeams :
                        /\ getSolvedCount(teams'[u]) = getSolvedCount(teams[u])
                        /\ getPenaltyTime(teams'[u]) = getPenaltyTime(teams[u])
                        /\ TrueSolved(teams'[u]) = TrueSolved(teams[u])
                        /\ TruePenalty(teams'[u]) = TruePenalty(teams[u])]_vars

\* An iteration of the loop has just resolved a problem without solving it.
C8_Witness ==
    /\ pc = "scroll"
    /\ loc.found
    /\ ~loc.changed
    /\ teams[loc.targetTeam].problems[loc.targetProblem].wrongAttempts >= 1
    /\ ~teams[loc.targetTeam].problems[loc.targetProblem].solved

----------------------------------------------------------------------------
\* Rejected commands and the freeze state machine.

\* The command read in this step is one of those to reject.
ToReject ==
    /\ pc = "idle"
    /\ \/ out'.cmd = "ADDTEAM" /\ (started \/ out'.args[1] \in KnownTeams)
       \/ out'.cmd = "START" /\ started
       \/ out'.cmd = "FREEZE" /\ frozen
       \/ out'.cmd = "SCROLL" /\ ~frozen
       \/ out'.cmd = "QUERY_RANKING" /\ out'.args[1] \notin KnownTeams
       \/ out'.cmd = "QUERY_SUBMISSION" /\ out'.args[1] \notin KnownTeams

\* C9: a command to reject (ADDTEAM after the start or with a registered
\* name, a second START, FREEZE while frozen, SCROLL while not frozen, a
\* query for an unknown team) is reported as an error, leaves the core state
\* unchanged and returns, so that the next line is read.
C9_RejectedLeavesCore ==
    [][(ToReject \/ (pc = "idle" /\ Rejected(out')))
       => /\ Rejected(out')
          /\ ToReject
          /\ UNCHANGED core
          /\ pc' = "done"]_vars

\* A command has been rejected in a frozen contest with a submission on record.
C9_Witness ==
    /\ pc = "done"
    /\ Rejected(out)
    /\ started
    /\ frozen
    /\ NumSubs(teams) >= 1

FreezeSucceeds == pc = "idle" /\ out'.cmd = "FREEZE" /\ ~Rejected(out')
ScrollSucceeds == pc = "idle" /\ out'.cmd = "SCROLL" /\ ~Rejected(out')
ScrollReturns == pc = "scroll" /\ pc' = "done"

\* C10: a freeze succeeds exactly when the contest is not frozen and leaves
\* it frozen; a scroll succeeds exactly when the contest is frozen, keeps it
\* frozen while it runs and leaves it not frozen when it returns; nothing
\* else changes the flag.  Hence successful freezes and successful scrolls
\* alternate, a freeze first.
C10_FreezeScrollAlternate ==
    [][/\ (pc = "idle" /\ out'.cmd = "FREEZE") => (FreezeSucceeds <=> ~frozen)
       /\ FreezeSucceeds => frozen'
       /\ (pc = "idle" /\ out'.cmd = "SCROLL") => (ScrollSucceeds <=> frozen)
       /\ ScrollSucceeds => (frozen' /\ pc' = "scroll")
       /\ ScrollReturns => (frozen /\ ~frozen')
       /\ (frozen' /= frozen) => (FreezeSucceeds \/ ScrollReturns)]_vars

\* A scroll that resolved a frozen problem has returned: the freeze before it
\* is matched and the contest is not frozen.
C10_Witness ==
    /\ pc = "done"
    /\ out.cmd = "SCROLL"
    /\ ~Rejected(out)
    /\ loc.found
    /\ ~frozen

----------------------------------------------------------------------------
\* First solve wins.

\* C11: once a problem of a team is solved, no step (a submission to it,
\* while frozen or not, a flush, a step of a scroll, any other command)
\* changes its solved flag, its solveTime or its wrongAttempts, and its
\* frozen storage stays empty.
C11_FirstSolveWins ==
    [][\A t \in KnownTeams : \A p \in DOMAIN teams[t].problems :
          teams[t].problems[p].solved =>
              /\ t \in DOMAIN teams'
              /\ p \in DOMAIN teams'[t].problems
              /\ teams'[t].problems[p].solved
              /\ teams'[t].problems[p].solveTime = teams[t].problems[p].solveTime
              /\ teams'[t].problems[p].wrongAttempts = teams[t].problems[p].wrongAttempts
              /\ teams'[t].problems[p].frozenSubmissions = 0
              /\ teams'[t].problems[p].frozenSubs = <<>>]_vars

\* A second Accepted submission, at a later time, has just been recorded for
\* a solved problem while the contest is frozen.
C11_Witness ==
    /\ pc = "done"
    /\ out.cmd = "SUBMIT"
    /\ frozen
    /\ LET ps == teams[out.args[2]].problems[out.args[1]]
       IN /\ ps.solved
          /\ Len(ps.submissions) = 2
          /\ ps.submissions[1].status = "Accepted"
          /\ ps.submissions[2].status = "Accepted"
          /\ ps.solveTime = ps.submissions[1].time
          /\ ps.submissions[2].time > ps.solveTime

----------------------------------------------------------------------------
\* Rank-change lines of a scroll.

\* C12: a resolution step that solves a problem appends exactly one
\* rank-change line when the team's position has strictly improved, and none
\* otherwise.  The line names the team, the team right below it after the
\* move, which held the new position before, and the team's new solved count
\* and penalty.  Without a move the scoreboard is left as it is, and the
\* problem is solved all the same.
C12_RankChangeRecord ==
    [][ResolveStep =>
          \A t \in KnownTeams : \A p \in 1..problemCount :
              (ResolvedBy(t, p) /\ teams'[t].problems[p].solved) =>
                  LET old == IndexOf(ranking, t)
                      new == IndexOf(ranking', t)
                  IN /\ ~teams[t].problems[p].solved
                     /\ new <= old
                     /\ IF new < old
                        THEN /\ ranking'[new + 1] = ranking[new]
                             /\ out'.res =
                                  Append(out.res,
                                         [team |-> t, below |-> ranking[new],
                                          solved |-> TrueSolved(teams'[t]),
                                          penalty |-> TruePenalty(teams'[t])])
                        ELSE /\ ranking' = ranking
                             /\ out'.res = out.res]_vars

\* In one scroll a resolution has moved a team up and printed its line, and
\* a later one has solved a problem without moving its team.
C12_Witness ==
    /\ pc = "scroll"
    /\ loc.found
    /\ loc.changed
    /\ loc.newRank = loc.oldRank
    /\ Len(out.res) = 1
    /\ out.res[1].team /= loc.targetTeam
    /\ teams[loc.targetTeam].problems[loc.targetProblem].solved

----------------------------------------------------------------------------
\* The freeze window.

SubmitStep == pc = "idle" /\ out'.cmd = "SUBMIT"

\* Solved flag, solveTime and wrongAttempts of every problem, solved count
\* and penalty of every team are the same before and after the step.
SameMetrics ==
    \A t \in KnownTeams :
        /\ \A p \in DOMAIN teams[t].problems :
               /\ teams'[t].problems[p].solved = teams[t].problems[p].solved
               /\ teams'[t].problems[p].solveTime = teams[t].problems[p].solveTime
               /\ teams'[t].problems[p].wrongAttempts = teams[t].problems[p].wrongAttempts
        /\ getSolvedCount(teams'[t]) = getSolvedCount(teams[t])
        /\ getPenaltyTime(teams'[t]) = getPenaltyTime(teams[t])
        /\ TrueSolved(teams'[t]) = TrueSolved(teams[t])
        /\ TruePenalty(teams'[t]) = TruePenalty(teams[t])

\* C13: a submission made while the contest is frozen, of any status and to
\* any problem, changes no solved flag, solveTime, wrongAttempts, solved
\* count or penalty.  Hence no command read while the contest is frozen and
\* leaving it frozen changes the sequence a flush produces, as long as it
\* registers no team, and every flush of one freeze window yields the
\* sequence a flush at the freeze would have produced.
C13_FrozenSubmitInvisible ==
    [][/\ (SubmitStep /\ frozen) => SameMetrics
       /\ (frozen /\ frozen' /\ pc /= "scroll" /\ DOMAIN teams' = DOMAIN teams)
          => FlushedRanking(teams') = FlushedRanking(teams)
       /\ (pc = "idle" /\ frozen /\ out'.cmd = "FLUSH")
          => ranking' = FlushedRanking(teams)]_vars

\* A flush in a freeze window has left a team below another one although an
\* Accepted submission of the window waits in its frozen storage and nobody
\* has solved anything yet.
C13_Witness ==
    /\ FlushDone
    /\ frozen
    /\ \E i \in DOMAIN ranking : \E j \in DOMAIN ranking :
           /\ i < j
           /\ TrueSolved(teams[ranking[i]]) = 0
           /\ TrueSolved(teams[ranking[j]]) = 0
           /\ \E p \in DOMAIN teams[ranking[j]].problems :
                  \E k \in DOMAIN teams[ranking[j]].problems[p].frozenSubs :
                      teams[ranking[j]].problems[p].frozenSubs[k].status = "Accepted"

----------------------------------------------------------------------------
\* Submissions of equal time in a submission query.

\* The matching submissions of greatest time of the team of a query.
Tied(team, problem, status) ==
    LET M == {q \in Recorded(team) : Matches(Deref(team, q), problem, status)}
    IN {q \in M : \A r \in M : Deref(team, r).time <= Deref(team, q).time}

\* The position in the input of the SUBMIT line that recorded submission q
\* of team name.
LogPos(name, q) ==
    CHOOSE i \in DOMAIN log : log[i] = [team |-> name, problem |-> q.problem, idx |-> q.idx]

\* The one of S recorded last, in the order of the commands.
LastRecorded(name, S) ==
    CHOOSE q \in S : \A r \in S : LogPos(name, r) <= LogPos(name, q)

\* The one of S the scan of the query meets first: smallest letter, then
\* earliest in the list of the problem.
FirstScanned(S) ==
    CHOOSE q \in S : \A r \in S :
        q.problem < r.problem \/ (q.problem = r.problem /\ q.idx <= r.idx)

QueryAnswered == QueryDone /\ out.res /= <<>>

\* C14 as stated: of several matching submissions sharing the greatest time
\* the query returns the one recorded last in the order of the commands.
C14_LastRecorded ==
    QueryAnswered =>
        LET name == out.args[1]
            T == Tied(teams[name], out.args[2], out.args[3])
        IN out.res[1].sub = Deref(teams[name], LastRecorded(name, T))

\* What querySubmission does instead (the comparison of line 366 is
\* strict): of several matching submissions sharing the greatest time it
\* returns the one its scan meets first, that of the smallest problem letter
\* and among those of one problem the one recorded first.
C14_FirstScanned ==
    QueryAnswered =>
        LET name == out.args[1]
            T == Tied(teams[name], out.args[2], out.args[3])
        IN /\ T /= {}
           /\ out.res[1].sub = Deref(teams[name], FirstScanned(T))

\* A query has answered although two matching submissions share the greatest
\* time, the one recorded last being another submission than the one the
\* scan meets first.
C14_Witness ==
    /\ QueryAnswered
    /\ LET name == out.args[1]
           T == Tied(teams[name], out.args[2], out.args[3])
       IN /\ Cardinality(T) = 2
          /\ Deref(teams[name], LastRecorded(name, T))
               /= Deref(teams[name], FirstScanned(T))

----------------------------------------------------------------------------
\* What changes the scoreboard.

\* The step changes the position of a registered team in the scoreboard.
RankChanges ==
    \E t \in KnownTeams : IndexOf(ranking', t) /= IndexOf(ranking, t)

FlushStep == pc = "idle" /\ out'.cmd = "FLUSH"
FreezeStep == pc = "idle" /\ out'.cmd = "FREEZE"
AddSucceeds == pc = "idle" /\ out'.cmd = "ADDTEAM" /\ ~Rejected(out')
RankQueryStep == pc = "idle" /\ out'.cmd = "QUERY_RANKING" /\ ~Rejected(out')

\* C15 as stated: a submission and a freeze leave the scoreboard as it is, a
\* rank query reports the position of the team in it, counted from 1, and
\* the position of a team changes only in a flush or in a successful scroll.
C15_OnlyFlushOrScroll ==
    [][/\ (SubmitStep \/ FreezeStep) => ranking' = ranking
       /\ RankQueryStep =>
              out'.res = <<[team |-> out'.args[1],
                            rank |-> IndexOf(ranking, out'.args[1])]>>
       /\ RankChanges => (FlushStep \/ ScrollSucceeds \/ ResolveStep)]_vars

\* C15 as amended: a submission and a freeze leave the scoreboard as it is, a
\* rank query reports the position of the team in it, counted from 1, and
\* the position of a team changes only in a flush, in a successful scroll or
\* in the registration of a team, which sorts the scoreboard by name.
C15_FlushScrollOrAdd ==
    [][/\ (SubmitStep \/ FreezeStep) => ranking' = ranking
       /\ RankQueryStep =>
              out'.res = <<[team |-> out'.args[1],
                            rank |-> IndexOf(ranking, out'.args[1])]>>
       /\ RankChanges => (FlushStep \/ ScrollSucceeds \/ ResolveStep \/ AddSucceeds)
       /\ AddSucceeds => ranking' = SortAsc(Append(ranking, out'.args[1]))]_vars

\* A team has solved a problem in a submission that is not deferred, and the
\* scoreboard still lists it below a team that has solved nothing.
C15_Witness ==
    /\ pc = "done"
    /\ out.cmd = "SUBMIT"
    /\ ~frozen
    /\ ranking /= FlushedRanking(teams)
    /\ TrueSolved(teams[out.args[2]]) = 1
    /\ TrueSolved(teams[ranking[1]]) = 0

----------------------------------------------------------------------------
\* The scoreboard of a scroll.

ScrollDone == pc = "done" /\ out.cmd = "SCROLL" /\ ~Rejected(out)

\* The scoreboard lists every team once, each team before the teams that
\* compareTeams puts after it.
SortedByComparator ==
    /\ IsPermutationOfTeams(ranking)
    /\ \A i \in DOMAIN ranking : \A j \in DOMAIN ranking :
           i < j => compareTeams(teams, ranking[i], ranking[j])

\* C16: throughout a successful scroll, after its flush and after every
\* resolution step, the scoreboard is sorted by compareTeams on the metrics
\* of that moment, and when the scroll has returned the scoreboard is the
\* sequence a flush would produce.
C16_ScrollKeepsSorted ==
    (pc = "scroll" \/ ScrollDone) =>
        /\ SortedByComparator
        /\ ranking = FlushedRanking(teams)
        /\ \A i \in DOMAIN ranking : \A j \in DOMAIN ranking :
               i < j => RanksAbove(ranking[i], ranking[j])

\* A scroll has returned after a resolution that took the team of the third
\* position to the first.
C16_Witness ==
    /\ ScrollDone
    /\ loc.found
    /\ loc.changed
    /\ loc.oldRank = 3
    /\ loc.newRank = 1
    /\ ranking[1] = loc.targetTeam

----------------------------------------------------------------------------
\* Termination of scroll.

\* The problems with frozen submissions, among the letters of the contest.
FrozenProblems ==
    {tp \in KnownTeams \X (1..problemCount) :
         teams[tp[1]].problems[tp[2]].frozenSubmissions > 0}

\* C17: every successful scroll returns.  Each iteration of its loop runs on
\* a state with a frozen problem, resolves exactly one and leaves no problem
\* frozen that was not, so the loop ends after as many iterations as there
\* were frozen problems; the scroll returns from a state without a frozen
\* problem and leaves the contest not frozen.
C17_ScrollTerminates ==
    /\ [][/\ ResolveStep =>
                /\ FrozenProblems' \subseteq FrozenProblems
                /\ Cardinality(FrozenProblems') = Cardinality(FrozenProblems) - 1
          /\ ScrollReturns =>
                /\ FrozenProblems = {}
                /\ NoFrozenProblem'
                /\ ~frozen']_vars
    /\ (pc = "scroll") ~> (ScrollDone /\ ~frozen /\ NoFrozenProblem)

\* The loop of a scroll runs on a state with two frozen problems.
C17_Witness ==
    /\ pc = "scroll"
    /\ Cardinality(FrozenProblems) = 2

----------------------------------------------------------------------------
\* The frozen storage.

\* C18: in every reachable state, for every team and every problem, the
\* counter frozenSubmissions is the length of the list frozenSubs, and both
\* are nonzero only for a problem that is not solved and only while the
\* contest is frozen.
C18_FrozenStorage ==
    \A t \in KnownTeams : \A p \in DOMAIN teams[t].problems :
        LET ps == teams[t].problems[p]
        IN /\ ps.frozenSubmissions = Len(ps.frozenSubs)
           /\ ps.frozenSubmissions >= 0
           /\ ps.frozenSubmissions > 0 => (~ps.solved /\ frozen)

\* While the contest is frozen a team holds two frozen submissions for one
\* problem and none for another one.
C18_Witness ==
    /\ frozen
    /\ \E t \in KnownTeams : \E p \in DOMAIN teams[t].problems :
           \E q \in DOMAIN teams[t].problems :
               /\ teams[t].problems[p].frozenSubmissions = 2
               /\ Len(teams[t].problems[p].frozenSubs) = 2
               /\ q /= p
               /\ teams[t].problems[q].frozenSubmissions = 0

----------------------------------------------------------------------------
\* Freezing and the final outcome.

\* The Problem Status that the submissions subs, applied one after the other
\* by submit() in a contest that is never frozen, make of ps.
RECURSIVE ApplyUnfrozen(_, _)
ApplyUnfrozen(ps, subs) ==
    IF subs = <<>> THEN ps
    ELSE ApplyUnfrozen(SubmitStatus(ps, Head(subs), FALSE)[1], Tail(subs))

\* The teams as the same SUBMIT lines, in the same order, leave them without
\* any freeze.  A submission acts on its own Problem Status only, so the
\* order of the input matters within each problem's list alone.
NoFreezeTeams ==
    [t \in KnownTeams |->
        [NewTeam EXCEPT !.problems =
            [p \in DOMAIN teams[t].problems |->
                ApplyUnfrozen(NewProblemStatus, teams[t].problems[p].submissions)]]]

SameOutcome(ps, qs) ==
    /\ ps.solved = qs.solved
    /\ ps.solveTime = qs.solveTime
    /\ ps.wrongAttempts = qs.wrongAttempts

\* C19: whenever the contest is not frozen, and so after every scroll, each
\* problem of each team has the solved flag, the solveTime and the
\* wrongAttempts that the same submissions in the same order give without
\* any freeze, and the scoreboard a scroll leaves, like the one a flush
\* produces then, is the flushed scoreboard of that run without freeze.
C19_FreezeOutcomeNeutral ==
    ~frozen =>
        /\ \A t \in KnownTeams : \A p \in DOMAIN teams[t].problems :
               SameOutcome(teams[t].problems[p], NoFreezeTeams[t].problems[p])
        /\ (ScrollDone \/ FlushDone) => ranking = FlushedRanking(NoFreezeTeams)

\* A scroll has returned after it solved a problem on a failed and an
\* Accepted submission of the freeze window and moved the team up.
C19_Witness ==
    /\ ScrollDone
    /\ out.res /= <<>>
    /\ loc.changed
    /\ LET ps == teams[loc.targetTeam].problems[loc.targetProblem]
       IN /\ ps.solved
          /\ ps.wrongAttempts = 1
          /\ Len(ps.submissions) = 2
          /\ ps.solveTime = ps.submissions[2].time

----------------------------------------------------------------------------
\* The scoreboard as a list of the teams.

RankQueryDone == pc = "done" /\ out.cmd = "QUERY_RANKING" /\ ~Rejected(out)

\* C20: in every reachable state, so after every addTeam, flush and move of a
\* scroll, the scoreboard lists every registered team exactly once and no
\* other name, and a rank query for a registered team reports a position
\* between 1 and the number of teams, the one where the scoreboard has it.
C20_ScoreboardIsPermutation ==
    /\ IsPermutationOfTeams(ranking)
    /\ \A i \in DOMAIN ranking : \A j \in DOMAIN ranking :
           ranking[i] = ranking[j] => i = j
    /\ RankQueryDone =>
           /\ Len(out.res) = 1
           /\ out.res[1].rank \in 1..Cardinality(KnownTeams)
           /\ ranking[out.res[1].rank] = out.args[1]

\* A rank query finds the team of the smallest name in the last of three
\* positions, below two teams that have each solved a problem.
C20_Witness ==
    /\ RankQueryDone
    /\ Cardinality(KnownTeams) = 3
    /\ out.args[1] = 1
    /\ out.res[1].rank = 3
    /\ ranking = <<3, 2, 1>>
    /\ TrueSolved(teams[3]) = 1
    /\ TrueSolved(teams[2]) = 1

====
